---------------------------- MODULE Spec2Model ----------------------------
(***************************************************************************)
(* A model of sarracen's interpolate2D (src/sarracen/interpolate.py).      *)
(*                                                                         *)
(* Floating-point numbers are modelled as exact extended rationals: a pair *)
(* <<n, d>> with d > 0 is the number n/d in lowest terms, <<1, 0>> is      *)
(* +inf, <<-1, 0>> is -inf and <<0, 0>> is NaN.  Rounding error of the     *)
(* binary representation is not modelled; every result below is a result   *)
(* about the algorithm in exact arithmetic with IEEE special values.       *)
(***************************************************************************)
EXTENDS Integers, Sequences, FiniteSets, TLC

(***************************************************************************)
(* Extended rational arithmetic (Python / numpy float operators).          *)
(***************************************************************************)
Abs(n) == IF n < 0 THEN -n ELSE n

Sign(n) == IF n > 0 THEN 1 ELSE IF n < 0 THEN -1 ELSE 0

RECURSIVE Gcd(_, _)
Gcd(a, b) == IF b = 0 THEN a ELSE Gcd(b, a % b)

\* n/d brought to the canonical form described above.
RNorm(n, d) ==
    IF d = 0 THEN <<Sign(n), 0>>
    ELSE LET s == IF d < 0 THEN -1 ELSE 1
             g == Gcd(Abs(n), Abs(d))
         IN  <<(s * n) \div g, (s * d) \div g>>

R(k) == <<k, 1>>

Half == <<1, 2>>

NaN == <<0, 0>>

PInf == <<1, 0>>

NInf == <<-1, 0>>

IsNaN(a) == a = NaN

IsFinite(a) == a[2] # 0

\* a * b ; inf * 0 = NaN, NaN * anything = NaN
RMul(a, b) == RNorm(a[1] * b[1], a[2] * b[2])

\* a + b ; inf + inf = inf, inf + (-inf) = NaN
RAdd(a, b) ==
    IF a[2] = 0 /\ b[2] = 0
    THEN (IF a = b THEN a ELSE NaN)
    ELSE RNorm(a[1] * b[2] + b[1] * a[2], a[2] * b[2])

RNeg(a) == <<-a[1], a[2]>>

RSub(a, b) == RAdd(a, RNeg(b))

\* 1 / a as numpy computes it on an array: 1/0 = +inf, 1/inf = 0, no exception
RRecip(a) ==
    IF a[1] > 0 THEN <<a[2], a[1]>>
    ELSE IF a[1] < 0 THEN <<-a[2], -a[1]>>
    ELSE IF a[2] = 0 THEN NaN ELSE PInf

\* a / b on numpy arrays (0/0 = NaN, x/0 = +-inf)
RDiv(a, b) == RMul(a, RRecip(b))

\* a > 0 ; False for NaN
RPos(a) == a[1] > 0

\* a <= 0 ; False for NaN
RNonPos(a) == a[1] < 0 \/ (a[1] = 0 /\ a[2] # 0)

\* a < b for finite a, b
RLess(a, b) == a[1] * b[2] < b[1] * a[2]

RSq(a) == RMul(a, a)

RECURSIVE RPow(_, _)
RPow(a, k) == IF k = 0 THEN R(1) ELSE RMul(a, RPow(a, k - 1))

\* np.rint: round to the nearest integer, ties to the even one; inf and NaN
\* are returned unchanged.
Rint(a) ==
    IF a[2] = 0 THEN a
    ELSE LET f == a[1] \div a[2]
             r == a[1] - f * a[2]
         IN  IF 2 * r < a[2] THEN R(f)
             ELSE IF 2 * r > a[2] THEN R(f + 1)
             ELSE IF f % 2 = 0 THEN R(f) ELSE R(f + 1)

\* Series.clip(lower=lo, upper=hi) for integers lo <= hi; NaN stays NaN.
Clip(a, lo, hi) ==
    IF IsNaN(a) THEN a
    ELSE IF a[2] = 0 THEN (IF a[1] > 0 THEN R(hi) ELSE R(lo))
    ELSE IF RLess(a, R(lo)) THEN R(lo)
    ELSE IF RLess(R(hi), a) THEN R(hi)
    ELSE a


(***************************************************************************)
(* Sequence helpers (pandas columns are sequences aligned by row).         *)
(***************************************************************************)
RECURSIVE Pick(_, _)
\* the subsequence of col at the increasing index sequence idx
Pick(col, idx) ==
    IF idx = <<>> THEN <<>>
    ELSE <<col[Head(idx)]>> \o Pick(col, Tail(idx))

RECURSIVE KeepIdx(_, _)
\* the indices k..Len(mask) at which the boolean column mask is true
KeepIdx(mask, k) ==
    IF k > Len(mask) THEN <<>>
    ELSE (IF mask[k] THEN <<k>> ELSE <<>>) \o KeepIdx(mask, k + 1)

\* a DataFrame is a function from column labels to equally long columns
NRows(df) == IF DOMAIN df = {} THEN 0 ELSE Len(df[CHOOSE l \in DOMAIN df : TRUE])

\* df[label] = col : add or replace one column
SetCol(df, label, col) ==
    [l \in DOMAIN df \cup {label} |-> IF l = label THEN col ELSE df[l]]

\* range(lo, hi) of Python, as a set
Range(lo, hi) == lo..(hi - 1)

(***************************************************************************)
(* The kernel (sarracen.kernels.BaseKernel, not part of the sources): a    *)
(* record [ndims, radkernel, power].  w(q) = (radkernel^2 - q^2)^power for *)
(* q < radkernel and 0 from radkernel on, evaluated on q^2 so that the     *)
(* square root of line 88 stays exact.                                     *)
(***************************************************************************)
KernelW(kernel, q2) ==
    LET r2 == R(kernel.radkernel * kernel.radkernel)
    IN  IF IsFinite(q2) /\ RLess(q2, r2)
        THEN RPow(RSub(r2, q2), kernel.power)
        ELSE R(0)

(***************************************************************************)
(* interpolate2D, statement by statement.  c is the record of the call's   *)
(* arguments: data, x, y, target, kernel, pixwidthx, pixwidthy, xmin,      *)
(* ymin, pixcountx, pixcounty.                                             *)
(***************************************************************************)
NoError == "none"

\* CheckArgs without the check of line 39
CheckArgsNoCountX(c) ==
    IF RNonPos(c.pixwidthx) THEN "ValueError"
    ELSE IF RNonPos(c.pixwidthy) THEN "ValueError"
    ELSE IF c.pixcounty <= 0 THEN "ValueError"
    ELSE IF c.kernel.ndims # 2 THEN "ValueError"
    ELSE NoError

\* lines 35-45: the exception the argument checks raise, or NoError
CheckArgs(c) ==
    IF RNonPos(c.pixwidthx) THEN "ValueError"
    ELSE IF RNonPos(c.pixwidthy) THEN "ValueError"
    ELSE IF c.pixcountx <= 0 THEN "ValueError"
    ELSE IF c.pixcounty <= 0 THEN "ValueError"
    ELSE IF c.kernel.ndims # 2 THEN "ValueError"
    ELSE NoError

\* an array that is not zero-initialised
Ones(c) == [j \in 0..(c.pixcounty - 1) |-> [i \in 0..(c.pixcountx - 1) |-> R(1)]]

\* line 47: np.zeros((pixcounty, pixcountx)), indexed from 0 as in Python
Zeros(c) == [j \in 0..(c.pixcounty - 1) |-> [i \in 0..(c.pixcountx - 1) |-> R(0)]]

\* line 54: data['m'] / (data['rho'] * data['h'] ** 2)
Weight(m, rho, h) == RDiv(m, RMul(rho, RSq(h)))

\* lines 50-55: the labels the statements read from data
ClonedLabels(c) == {c.x, c.y, "h", "m", "rho", c.target}

\* lines 50-55: the working frame parts (a KeyError when a label is missing)
CloneColumns(c) ==
    LET d == c.data
        weight == [k \in 1..NRows(d) |-> Weight(d["m"][k], d["rho"][k], d["h"][k])]
    IN  [x |-> d[c.x], y |-> d[c.y], h |-> d["h"], weight |-> weight,
         term |-> [k \in 1..NRows(d) |-> RMul(weight[k], d[c.target][k])]]

\* the dataset if line 50 bound parts to data itself: lines 51-55 would assign
\* their columns to it
DataAliased(c) ==
    LET ps == CloneColumns(c)
    IN  [l \in DOMAIN c.data \cup DOMAIN ps |->
            IF l \in DOMAIN ps THEN ps[l] ELSE c.data[l]]

\* lines 50-55: the dataset after the statements.  parts is a frame of its own
\* (line 50) and data is only read, so the dataset is what it was
DataAfterClone(c) == c.data

\* line 58: parts[parts['weight'] > 0]; line 59 drops nothing (its result is
\* discarded), so the weight column stays
FilterParts(parts) ==
    LET idx == KeepIdx([k \in 1..NRows(parts) |-> RPos(parts["weight"][k])], 1)
    IN  [l \in DOMAIN parts |-> Pick(parts[l], idx)]

\* PixBound without the clip
PixBoundNoClip(pos, h, sgn, radkernel, origin, width, count) ==
    Rint(RDiv(RSub(RAdd(pos, RMul(R(sgn * radkernel), h)), origin), width))

\* lines 62-69, one entry: np.rint((pos -+ radkernel * h - origin) / width)
\*   .clip(lower=0, upper=count)
PixBound(pos, h, sgn, radkernel, origin, width, count) ==
    Clip(Rint(RDiv(RSub(RAdd(pos, RMul(R(sgn * radkernel), h)), origin), width)),
         0, count)

\* lines 62-69: parts[x] and parts[y] are read from the working frame, whose
\* position columns are labelled 'x' and 'y'
BoundsLabels(c) == {c.x, c.y}

AddBounds(c, parts) ==
    LET n  == NRows(parts)
        px == parts[c.x]
        py == parts[c.y]
        h  == parts["h"]
        rk == c.kernel.radkernel
        p1 == SetCol(parts, "ipixmin",
                [k \in 1..n |-> PixBound(px[k], h[k], -1, rk, c.xmin, c.pixwidthx, c.pixcountx)])
        p2 == SetCol(p1, "jpixmin",
                [k \in 1..n |-> PixBound(py[k], h[k], -1, rk, c.ymin, c.pixwidthy, c.pixcounty)])
        p3 == SetCol(p2, "ipixmax",
                [k \in 1..n |-> PixBound(px[k], h[k], 1, rk, c.xmin, c.pixwidthx, c.pixcountx)])
    IN  SetCol(p3, "jpixmax",
                [k \in 1..n |-> PixBound(py[k], h[k], 1, rk, c.ymin, c.pixwidthy, c.pixcounty)])

\* line 72: the k-th tuple of parts.itertuples()
Tuple(parts, k) == [l \in DOMAIN parts |-> parts[l][k]]

\* int(v) of lines 75, 79, 85: defined for finite v only
IntOf(v) == v[1] \div v[2]

\* line 75: range(int(part.ipixmin), int(part.ipixmax)), the dx2i entries filled
DxRange(part) == Range(IntOf(part.ipixmin), IntOf(part.ipixmax))

\* the pixels of a row with the upper bound included
IRangeInclusive(part) == Range(IntOf(part.ipixmin), IntOf(part.ipixmax) + 1)

\* line 85: range(int(part.ipixmin), int(part.ipixmax)), the pixels of a row
IRange(part) == Range(IntOf(part.ipixmin), IntOf(part.ipixmax))

\* line 79: range(int(part.jpixmin), int(part.jpixmax))
JRange(part) == Range(IntOf(part.jpixmin), IntOf(part.jpixmax))

\* centre of pixel k along one axis: origin + (k + 0.5) * width
PixCentre(origin, width, k) == RAdd(origin, RMul(RAdd(R(k), Half), width))

\* line 76: ((xmin + (ipix + 0.5) * pixwidthx - part.x) ** 2) * (1 / (part.h ** 2))
Dx2(c, part, ipix) ==
    RMul(RSq(RSub(PixCentre(c.xmin, c.pixwidthx, ipix), part.x)), RRecip(RSq(part.h)))

\* lines 74-76: dx2i after the loop; entries outside the range stay 0
FillDx(c, part) ==
    [i \in 0..(c.pixcountx - 1) |-> IF i \in DxRange(part) THEN Dx2(c, part, i) ELSE R(0)]

\* lines 81-83
Dy2(c, part, jpix) ==
    LET dy == RSub(PixCentre(c.ymin, c.pixwidthy, jpix), part.y)
    IN  RMul(RMul(dy, dy), RRecip(RSq(part.h)))

\* lines 87-91 for one pixel: the value added to image[jpix][ipix]
Contribution(c, part, dx, jpix, ipix) ==
    RMul(part.term, KernelW(c.kernel, RAdd(dx[ipix], Dy2(c, part, jpix))))

\* RowUpdate with = in place of += at line 91
RowUpdateAssign(c, img, part, dx, jpix) ==
    [j \in DOMAIN img |->
        IF j # jpix THEN img[j]
        ELSE [i \in DOMAIN img[j] |->
                IF i \in IRange(part)
                THEN Contribution(c, part, dx, jpix, i)
                ELSE img[j][i]]]

\* lines 80-91: the image after the body of the jpix loop for one row
RowUpdate(c, img, part, dx, jpix) ==
    [j \in DOMAIN img |->
        IF j # jpix THEN img[j]
        ELSE [i \in DOMAIN img[j] |->
                IF i \in IRange(part)
                THEN RAdd(img[j][i], Contribution(c, part, dx, jpix, i))
                ELSE img[j][i]]]


\* lines 75 and 76: what evaluating the ipix range and the first dx2i
\* entry raises: int(nan) is a ValueError, int(inf) an OverflowError,
\* 1 / 0.0 a ZeroDivisionError
FillDxError(part) ==
    IF IsNaN(part.ipixmin) \/ IsNaN(part.ipixmax) THEN "ValueError"
    ELSE IF ~IsFinite(part.ipixmin) \/ ~IsFinite(part.ipixmax) THEN "OverflowError"
    ELSE IF DxRange(part) # {} /\ part.h[1] = 0 THEN "ZeroDivisionError"
    ELSE NoError

\* line 79: what evaluating the jpix range raises
JRangeError(part) ==
    IF IsNaN(part.jpixmin) \/ IsNaN(part.jpixmax) THEN "ValueError"
    ELSE IF ~IsFinite(part.jpixmin) \/ ~IsFinite(part.jpixmax) THEN "OverflowError"
    ELSE NoError

\* line 83: 1 / (part.h ** 2) on Python floats
RowError(part) == IF part.h[1] = 0 THEN "ZeroDivisionError" ELSE NoError

(***************************************************************************)
(* The whole call as a function of its arguments: [err, image], the        *)
(* exception raised (NoError when it returns) and the array returned       *)
(* (Unset when it raises).                                                 *)
(***************************************************************************)
\* the value of a local that is not bound yet, and of a result never returned
Unset == <<>>

RECURSIVE RowsFrom(_, _, _, _, _)
\* lines 79-91 from row jpix on
RowsFrom(c, img, part, dx, j) ==
    IF j \notin JRange(part) THEN [err |-> NoError, image |-> img]
    ELSE IF RowError(part) # NoError THEN [err |-> RowError(part), image |-> Unset]
    ELSE RowsFrom(c, RowUpdate(c, img, part, dx, j), part, dx, j + 1)

\* lines 73-91 for one tuple
PartUpdate(c, img, part) ==
    IF FillDxError(part) # NoError THEN [err |-> FillDxError(part), image |-> Unset]
    ELSE IF JRangeError(part) # NoError THEN [err |-> JRangeError(part), image |-> Unset]
    ELSE RowsFrom(c, img, part, FillDx(c, part), IntOf(part.jpixmin))

RECURSIVE Accumulate(_, _, _, _)
\* lines 72-91 from tuple k on
Accumulate(c, img, ps, k) ==
    IF k > NRows(ps) THEN [err |-> NoError, image |-> img]
    ELSE LET r == PartUpdate(c, img, Tuple(ps, k))
         IN  IF r.err # NoError THEN r ELSE Accumulate(c, r.image, ps, k + 1)

\* lines 35-93
Interpolate2D(c) ==
    IF CheckArgs(c) # NoError THEN [err |-> CheckArgs(c), image |-> Unset]
    ELSE IF ~(ClonedLabels(c) \subseteq DOMAIN c.data) THEN [err |-> "KeyError", image |-> Unset]
    ELSE LET ps == FilterParts(CloneColumns(c))
         IN  IF ~(BoundsLabels(c) \subseteq DOMAIN ps) THEN [err |-> "KeyError", image |-> Unset]
             ELSE Accumulate(c, Zeros(c), AddBounds(c, ps), 1)

(***************************************************************************)
(* SarracenDataFrame (src/sarracen/sarracen_dataframe.py).                 *)
(*                                                                         *)
(* The dataset is the sequence of its column labels (self.columns) and the *)
(* column of values under each label.  Labels are strings; None stands for *)
(* Python's None where a label is expected.  Other Python objects are      *)
(* records [type, value].  The attributes no operation below reads (units, *)
(* backend) and the plotting methods, which only forward their arguments,  *)
(* are left out, as is the setter of dustfracscol.                         *)
(***************************************************************************)
None == "None"

PyNone == [type |-> "NoneType"]

\* a dict with the given items (a function from keys to numbers)
PyDict(items) == [type |-> "dict", value |-> items]

\* an object that is neither a dict nor None
PyList == [type |-> "list"]

PyStr(str) == [type |-> "str", value |-> str]

\* an instance of the kernel class cls
PyKernel(cls) == [type |-> cls]

\* the classes for which isinstance(obj, BaseKernel) holds (sarracen.kernels
\* is not part of the sources)
KernelClasses == {"BaseKernel", "CubicSplineKernel", "QuarticSplineKernel"}

\* isinstance(obj, BaseKernel)
IsBaseKernel(obj) == obj.type \in KernelClasses

\* type(obj) is dict
IsDict(obj) == obj.type = "dict"

\* key in d, for a dict d
HasKey(d, key) == key \in DOMAIN d.value

\* the set of the labels of a column sequence
Labels(cols) == {cols[k] : k \in 1..Len(cols)}

\* column.startswith('dustfrac') on the labels used below
DustLabels == {"dustfrac", "dustfrac2", "dustfrac_total"}

\* self[label] = col: a new label is appended, an existing one keeps its place
WithLabel(cols, label) == IF label \in Labels(cols) THEN cols ELSE Append(cols, label)

\* a scalar broadcast to a column of n rows
Broadcast(v, n) == [k \in 1..n |-> v]

\* a setter that assigns whatever it is given
Unguarded(cols, old, new_col) == new_col

\* lines 617-743, the body of each label setter:
\*   if new_col in self or new_col is None: self._col = new_col
Guarded(cols, old, new_col) ==
    IF new_col \in Labels(cols) \/ new_col = None THEN new_col ELSE old

\* a setter of kernel that assigns whatever it is given
UnguardedKernel(old, new_kernel) == new_kernel

\* lines 765-768: if isinstance(new_kernel, BaseKernel): self._kernel = new_kernel
GuardedKernel(old, new_kernel) == IF IsBaseKernel(new_kernel) THEN new_kernel ELSE old

\* lines 589-596: the exception the params setter raises, or NoError
ParamsError(new_params) ==
    IF new_params = PyNone THEN NoError
    ELSE IF ~IsDict(new_params) THEN "TypeError"
    ELSE NoError

\* lines 785-794: 3 if self.zcol is not None else 2
GetDim(z) == IF z # None THEN 3 ELSE 2

(***************************************************************************)
(* The methods as functions of the object.  self is the record of the      *)
(* object's attributes: columns, values, params, xcol, ycol, zcol, hcol,   *)
(* mcol, rhocol, vxcol, vycol, vzcol, dustfracscol, kernel.  A method      *)
(* yields [raised, self]: the exception it raises (NoError when it         *)
(* returns) and the object it leaves.                                      *)
(***************************************************************************)
Returns(self) == [raised |-> NoError, self |-> self]

Raises(e, self) == [raised |-> e, self |-> self]

\* self[label] = col
Put(self, label, col) ==
    [self EXCEPT !.columns = WithLabel(self.columns, label),
                 !.values = SetCol(self.values, label, col)]

\* label in self.columns
HasColumn(self, label) == label \in Labels(self.columns)

\* len(self)
Length(self) == NRows(self.values)

\* element-wise arithmetic of two columns, and of a column and a scalar
ColMul(a, b) == [k \in 1..Len(a) |-> RMul(a[k], b[k])]

ColDiv(a, b) == [k \in 1..Len(a) |-> RDiv(a[k], b[k])]

ColAdd(a, b) == [k \in 1..Len(a) |-> RAdd(a[k], b[k])]

OneMinus(a) == [k \in 1..Len(a) |-> RSub(R(1), a[k])]

\* xcol with the alias tried before the canonical label
IdentifyXcolAliasFirst(cols) ==
    IF "rx" \in Labels(cols) THEN Guarded(cols, None, "rx")
    ELSE IF "x" \in Labels(cols) THEN Guarded(cols, None, "x")
    ELSE IF Len(cols) > 0 THEN Guarded(cols, None, cols[1])
    ELSE None

\* lines 150-155
IdentifyXcol(cols) ==
    IF "x" \in Labels(cols) THEN Guarded(cols, None, "x")
    ELSE IF "rx" \in Labels(cols) THEN Guarded(cols, None, "rx")
    ELSE IF Len(cols) > 0 THEN Guarded(cols, None, cols[1])
    ELSE None

\* lines 158-163
IdentifyYcol(cols) ==
    IF "y" \in Labels(cols) THEN Guarded(cols, None, "y")
    ELSE IF "ry" \in Labels(cols) THEN Guarded(cols, None, "ry")
    ELSE IF Len(cols) > 1 THEN Guarded(cols, None, cols[2])
    ELSE None

\* lines 166-169
IdentifyZcol(cols) ==
    IF "z" \in Labels(cols) THEN Guarded(cols, None, "z")
    ELSE IF "rz" \in Labels(cols) THEN Guarded(cols, None, "rz")
    ELSE None

\* lines 172-173
IdentifyHcol(cols) == IF "h" \in Labels(cols) THEN Guarded(cols, None, "h") ELSE None

\* lines 176-179
IdentifyMcol(cols) ==
    IF "m" \in Labels(cols) THEN Guarded(cols, None, "m")
    ELSE IF "mass" \in Labels(cols) THEN Guarded(cols, None, "mass")
    ELSE None

\* lines 182-185
IdentifyRhocol(cols) ==
    IF "rho" \in Labels(cols) THEN Guarded(cols, None, "rho")
    ELSE IF "density" \in Labels(cols) THEN Guarded(cols, None, "density")
    ELSE None

\* lines 188-193, for label 'vx', 'vy' or 'vz'
IdentifyVcol(cols, label) ==
    IF label \in Labels(cols) THEN Guarded(cols, None, label) ELSE None

\* lines 196-198: the columns whose label starts with 'dustfrac', in order
IdentifyDustfracs(cols) ==
    LET IsDust(label) == label \in DustLabels
    IN  SelectSeq(cols, IsDust)

\* lines 111-127: __init__ after the DataFrame constructor, on the frame with
\* the given columns and values and the params argument
Constructed(cols, vals, params_arg) ==
    LET given == IF params_arg = PyNone THEN PyDict(<<>>) ELSE params_arg
        fresh == [columns |-> cols, values |-> vals, params |-> PyNone,
                  xcol |-> None, ycol |-> None, zcol |-> None,
                  hcol |-> None, mcol |-> None, rhocol |-> None,
                  vxcol |-> None, vycol |-> None, vzcol |-> None,
                  dustfracscol |-> <<>>, kernel |-> PyNone]
    IN  IF ParamsError(given) # NoError THEN Raises(ParamsError(given), fresh)
        ELSE Returns([fresh EXCEPT
                        !.params = given,
                        !.xcol = IdentifyXcol(cols),
                        !.ycol = IdentifyYcol(cols),
                        !.zcol = IdentifyZcol(cols),
                        !.hcol = IdentifyHcol(cols),
                        !.mcol = IdentifyMcol(cols),
                        !.rhocol = IdentifyRhocol(cols),
                        !.vxcol = IdentifyVcol(cols, "vx"),
                        !.vycol = IdentifyVcol(cols, "vy"),
                        !.vzcol = IdentifyVcol(cols, "vz"),
                        !.dustfracscol = IdentifyDustfracs(cols),
                        !.kernel = PyKernel("CubicSplineKernel")])

\* lines 589-596: self.params = new_params
SetParamsOf(self, new_params) ==
    IF ParamsError(new_params) # NoError THEN Raises(ParamsError(new_params), self)
    ELSE Returns([self EXCEPT !.params = new_params])

\* key not in self.params (lines 211, 244, 247): a TypeError when params is
\* None, which is not iterable
MissingKeyError(self, key) ==
    IF self.params = PyNone THEN "TypeError"
    ELSE IF ~HasKey(self.params, key) THEN "KeyError"
    ELSE NoError

\* lines 211-216
CreateMassColumnOf(self) ==
    IF MissingKeyError(self, "mass") # NoError
    THEN Raises(MissingKeyError(self, "mass"), self)
    ELSE LET put == Put(self, "m", Broadcast(self.params.value["mass"], Length(self)))
         IN  Returns([put EXCEPT !.mcol = Guarded(put.columns, put.mcol, "m")])

\* lines 241-249: the exception calc_density raises, or NoError
CalcDensityError(self) ==
    IF ~HasColumn(self, self.hcol) THEN "KeyError"
    ELSE IF MissingKeyError(self, "hfact") # NoError THEN MissingKeyError(self, "hfact")
    ELSE IF ~HasColumn(self, self.mcol) /\ ~HasKey(self.params, "mass") THEN "KeyError"
    ELSE NoError

\* lines 252-255: the masses, a column
MassOf(self) ==
    IF HasColumn(self, self.mcol) THEN self.values[self.mcol]
    ELSE Broadcast(self.params.value["mass"], Length(self))

\* line 258: mass * (hfact / self[self.hcol]) ** self.get_dim()
DensityOf(self) ==
    LET mass  == MassOf(self)
        hfact == self.params.value["hfact"]
        h     == self.values[self.hcol]
    IN  [k \in 1..Length(self) |->
            RMul(mass[k], RPow(RDiv(hfact, h[k]), GetDim(self.zcol)))]

\* lines 241-259
CalcDensityOf(self) ==
    IF CalcDensityError(self) # NoError THEN Raises(CalcDensityError(self), self)
    ELSE LET put == Put(self, "rho", DensityOf(self))
         IN  Returns([put EXCEPT !.rhocol = Guarded(put.columns, put.rhocol, "rho")])

\* lines 274-276: the exception the check of the dust fractions raises;
\* self.dustfracscol[0] is an IndexError on the empty list
DustCheckError(self) ==
    IF Len(self.dustfracscol) = 0 THEN "IndexError"
    ELSE IF ~HasColumn(self, self.dustfracscol[1]) THEN "KeyError"
    ELSE NoError

\* lines 278-279: calc_density() when the density column does not exist
WithDensity(self) ==
    IF ~HasColumn(self, self.rhocol) THEN CalcDensityOf(self) ELSE Returns(self)

\* lines 281-283: the exception the test of ndustsmall and ndustlarge raises;
\* ndustlarge is read only when ndustsmall is not zero
DustCountError(self) ==
    IF self.params = PyNone THEN "TypeError"
    ELSE IF ~HasKey(self.params, "ndustsmall") THEN "KeyError"
    ELSE IF IntOf(self.params.value["ndustsmall"]) = 0 THEN "ValueError"
    ELSE IF ~HasKey(self.params, "ndustlarge") THEN "KeyError"
    ELSE IF IntOf(self.params.value["ndustlarge"]) # 0 THEN "ValueError"
    ELSE NoError

\* lines 286-288: one grain size
SingleDust(self) ==
    IF ~HasColumn(self, "rho") \/ ~HasColumn(self, "dustfrac") THEN Raises("KeyError", self)
    ELSE LET rho  == self.values["rho"]
             dust == self.values["dustfrac"]
             a    == Put(self, "rho_g", ColMul(rho, dust))
             b    == Put(a, "rho_d", ColMul(rho, OneMinus(dust)))
         IN  Returns(Put(b, "dtg", ColDiv(b.values["rho_d"], b.values["rho_g"])))

RECURSIVE SumColumns(_, _, _)
\* self[labels].sum(axis=1) from the k-th label on (the values are numbers)
SumColumns(self, labels, k) ==
    IF k > Len(labels) THEN Broadcast(R(0), Length(self))
    ELSE ColAdd(self.values[labels[k]], SumColumns(self, labels, k + 1))

\* f'rho_d_{i+1}'
RhoDLabel(i) == IF i = 1 THEN "rho_d_2" ELSE IF i = 2 THEN "rho_d_3" ELSE "rho_d_4"

RECURSIVE DustLoop(_, _, _)
\* lines 294-296 from i on, for range(1, n); self.dustfracscol[i] is an
\* IndexError past the end of the list
DustLoop(self, i, n) ==
    IF i >= n THEN Returns(self)
    ELSE IF i + 1 > Len(self.dustfracscol) THEN Raises("IndexError", self)
    ELSE DustLoop(Put(self, RhoDLabel(i),
                      ColMul(self.values["rho"], self.values[self.dustfracscol[i + 1]])),
                  i + 1, n)

\* lines 290-298: several grain sizes
MultiDust(self) ==
    LET a == Put(self, "dustfrac_total", SumColumns(self, self.dustfracscol, 1))
    IN  IF ~HasColumn(a, "rho") THEN Raises("KeyError", a)
        ELSE LET rho   == a.values["rho"]
                 total == a.values["dustfrac_total"]
                 b     == Put(a, "rho_g", ColMul(rho, OneMinus(total)))
                 c     == Put(b, "rho_d_total", ColMul(rho, total))
                 d     == Put(c, "rho_d", ColMul(rho, c.values[c.dustfracscol[1]]))
                 e     == DustLoop(d, 1, IntOf(d.params.value["ndustsmall"]))
             IN  IF e.raised # NoError THEN e
                 ELSE Returns(Put(e.self, "dtg",
                                  ColDiv(e.self.values["dustfrac_total"],
                                         OneMinus(e.self.values["dustfrac_total"]))))

\* lines 274-298
CalcOneFluidQuantitiesOf(self) ==
    IF DustCheckError(self) # NoError THEN Raises(DustCheckError(self), self)
    ELSE LET d == WithDensity(self)
         IN  IF d.raised # NoError THEN d
             ELSE IF DustCountError(d.self) # NoError
             THEN Raises(DustCountError(d.self), d.self)
             ELSE IF IntOf(d.self.params.value["ndustsmall"]) = 1 THEN SingleDust(d.self)
             ELSE MultiDust(d.self)

PyTuple(a, b) == [type |-> "tuple", value |-> <<a, b>>]

PyFloat(r) == [type |-> "float", value |-> r]

\* no call was made
NoCall == [fn |-> "none"]

\* sph_interpolate passing xlim and ylim on as given
SphInterpolateAsGiven(dim, xlim, ylim) ==
    IF dim = 2
    THEN [raised |-> NoError, called |-> [fn |-> "interpolate_2d", xlim |-> xlim, ylim |-> ylim]]
    ELSE IF dim = 3
    THEN [raised |-> NoError, called |-> [fn |-> "interpolate_3d_grid", xlim |-> xlim, ylim |-> ylim]]
    ELSE [raised |-> "ValueError", called |-> NoCall]

\* lines 562-575, for the value dim of self.get_dim(): the function called
\* with the limits it is given, or the exception raised.  The other arguments
\* are passed on unchanged; what the function called does is not part of the
\* sources.
SphInterpolateFor(dim, xlim, ylim) ==
    IF dim = 2
    THEN [raised |-> NoError,
          called |-> [fn |-> "interpolate_2d",
                      xlim |-> IF xlim = PyNone THEN PyTuple(PyNone, PyNone) ELSE xlim,
                      ylim |-> IF ylim = PyNone THEN PyTuple(PyNone, PyNone) ELSE ylim]]
    ELSE IF dim = 3
    THEN [raised |-> NoError,
          called |-> [fn |-> "interpolate_3d_grid", xlim |-> xlim, ylim |-> ylim]]
    ELSE [raised |-> "ValueError", called |-> NoCall]

(***************************************************************************)
(* State: the arguments of one call, the locals of interpolate2D, the      *)
(* position in its body (pc), the exception that ended it (err), and a     *)
(* record of the array accesses made for the current particle.             *)
(***************************************************************************)
VARIABLES data, x, y, target, kernel, pixwidthx, pixwidthy, xmin, ymin,
          pixcountx, pixcounty,
          pc, err, image, parts, row, part, dx2i, jpix,
          filled, reads, writes

args == <<data, x, y, target, kernel, pixwidthx, pixwidthy, xmin, ymin,
          pixcountx, pixcounty>>

\* the arguments other than the dataset
scalars == <<x, y, target, kernel, pixwidthx, pixwidthy, xmin, ymin,
             pixcountx, pixcounty>>

\* One SarracenDataFrame: its attributes (self_kernel is self._kernel; before
\* the constructor has run, params holds the constructor's params argument),
\* whether the constructor has returned (built), the last operation applied
\* to it with its argument (op, arg), the exception that operation raised
\* (raised), the interpolation function it called (called), the number of
\* operations still to be applied (budget), and whether an assignment of a
\* column label to zcol has taken effect since construction (zset).
VARIABLES columns, values, params,
          xcol, ycol, zcol, hcol, mcol, rhocol, vxcol, vycol, vzcol,
          dustfracscol, self_kernel,
          built, op, arg, raised, called, budget, zset

attributes == <<columns, values, params,
                xcol, ycol, zcol, hcol, mcol, rhocol, vxcol, vycol, vzcol,
                dustfracscol, self_kernel>>

frame == <<attributes, built, op, arg, raised, called, budget, zset>>

\* the attributes as one record
Self ==
    [columns |-> columns, values |-> values, params |-> params,
     xcol |-> xcol, ycol |-> ycol, zcol |-> zcol,
     hcol |-> hcol, mcol |-> mcol, rhocol |-> rhocol,
     vxcol |-> vxcol, vycol |-> vycol, vzcol |-> vzcol,
     dustfracscol |-> dustfracscol, kernel |-> self_kernel]

\* the attributes in the next state are those of the record self
Becomes(self) ==
    /\ columns' = self.columns /\ values' = self.values /\ params' = self.params
    /\ xcol' = self.xcol /\ ycol' = self.ycol /\ zcol' = self.zcol
    /\ hcol' = self.hcol /\ mcol' = self.mcol /\ rhocol' = self.rhocol
    /\ vxcol' = self.vxcol /\ vycol' = self.vycol /\ vzcol' = self.vzcol
    /\ dustfracscol' = self.dustfracscol /\ self_kernel' = self.kernel

\* no SarracenDataFrame is under study
NoFrame ==
    /\ columns = <<>> /\ values = <<>> /\ params = PyNone
    /\ xcol = None /\ ycol = None /\ zcol = None
    /\ hcol = None /\ mcol = None /\ rhocol = None
    /\ vxcol = None /\ vycol = None /\ vzcol = None
    /\ dustfracscol = <<>> /\ self_kernel = PyNone
    /\ built = FALSE /\ op = "none" /\ arg = PyNone
    /\ raised = NoError /\ called = NoCall /\ budget = 0 /\ zset = FALSE

locals == <<image, parts, row, part, dx2i, jpix>>

accesses == <<filled, reads, writes>>

\* the variables of a call of interpolate2D
call2d == <<args, pc, err, locals, accesses>>

vars == <<call2d, frame>>

\* the arguments as one record
Call ==
    [data |-> data, x |-> x, y |-> y, target |-> target, kernel |-> kernel,
     pixwidthx |-> pixwidthx, pixwidthy |-> pixwidthy, xmin |-> xmin, ymin |-> ymin,
     pixcountx |-> pixcountx, pixcounty |-> pixcounty]

Raise(e) == pc' = "raised" /\ err' = e

\* lines 35-45
Validate ==
    /\ pc = "check"
    /\ IF CheckArgs(Call) # NoError
       THEN Raise(CheckArgs(Call))
       ELSE pc' = "alloc" /\ err' = err
    /\ UNCHANGED <<frame, args, locals, accesses>>

\* line 47
Allocate ==
    /\ pc = "alloc"
    /\ image' = Zeros(Call)
    /\ pc' = "clone"
    /\ UNCHANGED <<frame, args, err, parts, row, part, dx2i, jpix, accesses>>

\* lines 50-55
Clone ==
    /\ pc = "clone"
    /\ IF ClonedLabels(Call) \subseteq DOMAIN data
       THEN /\ parts' = CloneColumns(Call)
            /\ data' = DataAfterClone(Call)
            /\ pc' = "filter" /\ err' = err
       ELSE parts' = parts /\ data' = data /\ Raise("KeyError")
    /\ UNCHANGED <<frame, scalars, image, row, part, dx2i, jpix, accesses>>

\* lines 58-59
Filter ==
    /\ pc = "filter"
    /\ parts' = FilterParts(parts)
    /\ pc' = "bounds"
    /\ UNCHANGED <<frame, args, err, image, row, part, dx2i, jpix, accesses>>

\* lines 62-69
Bounds ==
    /\ pc = "bounds"
    /\ IF BoundsLabels(Call) \subseteq DOMAIN parts
       THEN parts' = AddBounds(Call, parts) /\ pc' = "loop" /\ err' = err
       ELSE parts' = parts /\ Raise("KeyError")
    /\ UNCHANGED <<frame, args, image, row, part, dx2i, jpix, accesses>>

\* line 72: the next tuple of parts.itertuples(), or the end of the loop
NextPart ==
    /\ pc = "loop"
    /\ IF row < NRows(parts)
       THEN /\ row' = row + 1
            /\ part' = Tuple(parts, row + 1)
            /\ pc' = "filldx"
            /\ filled' = {} /\ reads' = {} /\ writes' = {}
       ELSE /\ pc' = "return"
            /\ UNCHANGED <<row, part, accesses>>
    /\ UNCHANGED <<frame, args, err, image, parts, dx2i, jpix>>

\* lines 74-76
PrecomputeDx ==
    /\ pc = "filldx"
    /\ IF FillDxError(part) # NoError
       THEN Raise(FillDxError(part)) /\ UNCHANGED <<dx2i, filled>>
       ELSE /\ dx2i' = FillDx(Call, part)
            /\ filled' = DxRange(part)
            /\ pc' = "rows" /\ err' = err
    /\ UNCHANGED <<frame, args, image, parts, row, part, jpix, reads, writes>>

\* line 79: the jpix range is evaluated once
EnterRows ==
    /\ pc = "rows"
    /\ IF JRangeError(part) # NoError
       THEN Raise(JRangeError(part)) /\ jpix' = jpix
       ELSE jpix' = IntOf(part.jpixmin) /\ pc' = "row" /\ err' = err
    /\ UNCHANGED <<frame, args, image, parts, row, part, dx2i, accesses>>

\* lines 79-91: one pass of the jpix loop, or its end
Row ==
    /\ pc = "row"
    /\ IF jpix \in JRange(part)
       THEN IF RowError(part) # NoError
            THEN Raise(RowError(part)) /\ UNCHANGED <<image, jpix, reads, writes>>
            ELSE /\ image' = RowUpdate(Call, image, part, dx2i, jpix)
                 /\ reads' = reads \cup IRange(part)
                 /\ writes' = writes \cup {<<jpix, i>> : i \in IRange(part)}
                 /\ jpix' = jpix + 1
                 /\ pc' = "row" /\ err' = err
       ELSE pc' = "loop" /\ err' = err /\ UNCHANGED <<image, jpix, reads, writes>>
    /\ UNCHANGED <<frame, args, parts, row, part, dx2i, filled>>

\* line 93
Return ==
    /\ pc = "return"
    /\ pc' = "done"
    /\ UNCHANGED <<frame, args, err, locals, accesses>>

Next ==
    \/ Validate
    \/ Allocate
    \/ Clone
    \/ Filter
    \/ Bounds
    \/ NextPart
    \/ PrecomputeDx
    \/ EnterRows
    \/ Row
    \/ Return


(***************************************************************************)
(* The calls explored.  Bounds of the exploration:                         *)
(***************************************************************************)
\* largest pixel count along an axis
MaxPix == 3

\* largest particle coordinate (coordinates run in steps of 1/2)
MaxCoord == 2

\* largest smoothing length
MaxH == 2

\* largest number of particles in the datasets built from SomeParts
MaxParts == 2

\* one particle: a row of the dataset
Particle(px, py, h, m, rho, f) == [x |-> px, y |-> py, h |-> h, m |-> m, rho |-> rho, f |-> f]

\* the dataset with the given rows, its position columns labelled xl and yl
\* and its target column labelled tl
MkData(xl, yl, tl, rows) ==
    [l \in {xl, yl, "h", "m", "rho", tl} |->
        [k \in 1..Len(rows) |->
            IF l = xl THEN rows[k].x
            ELSE IF l = yl THEN rows[k].y
            ELSE IF l = tl THEN rows[k].f
            ELSE rows[k][l]]]

MkCall(d, xl, yl, tl, k, pwx, pwy, x0, y0, nx, ny) ==
    [data |-> d, x |-> xl, y |-> yl, target |-> tl, kernel |-> k,
     pixwidthx |-> pwx, pixwidthy |-> pwy, xmin |-> x0, ymin |-> y0,
     pixcountx |-> nx, pixcounty |-> ny]

Kernel2 == [ndims |-> 2, radkernel |-> 2, power |-> 1]

PartA == Particle(Half, R(1), R(1), R(1), R(1), R(1))

PartB == Particle(R(2), R(0), Half, R(2), R(1), R(-1))

\* the arguments are those of call c
IsCall(c) ==
    /\ data = c.data /\ x = c.x /\ y = c.y /\ target = c.target
    /\ kernel = c.kernel
    /\ pixwidthx = c.pixwidthx /\ pixwidthy = c.pixwidthy
    /\ xmin = c.xmin /\ ymin = c.ymin
    /\ pixcountx = c.pixcountx /\ pixcounty = c.pixcounty

\* every combination of grid arguments and kernel, valid or not, on two particles
ArgCalls ==
    \E nd \in 1..3, rk \in 1..2, pw \in 1..2,
       wx \in {R(-1), R(0), R(1), R(2)}, wy \in {R(0), Half, R(1)},
       x0 \in {R(-1), R(0), Half}, y0 \in {R(-1), R(0)},
       nx \in (-1)..MaxPix, ny \in 0..MaxPix :
        IsCall(MkCall(MkData("x", "y", "f", <<PartA, PartB>>), "x", "y", "f",
                      [ndims |-> nd, radkernel |-> rk, power |-> pw],
                      wx, wy, x0, y0, nx, ny))

Coords == {RNorm(k, 2) : k \in (-2)..(2 * MaxCoord)} \cup {R(-4), R(MaxCoord + 4)}

Lengths == {R(-1), R(0), Half} \cup {R(k) : k \in 1..MaxH}

\* one particle of any position, smoothing length, mass, density and target
\* on a grid of MaxPix by 2 pixels
SingleCalls ==
    \E px \in Coords, py \in {R(0), Half, R(1)}, h \in Lengths,
       m \in {R(-1), R(0), R(1)}, rho \in {R(-1), R(0), R(1), R(2)},
       f \in {R(-1), R(0), R(2)}, wx \in {R(1), R(2)} :
        IsCall(MkCall(MkData("x", "y", "f", <<Particle(px, py, h, m, rho, f)>>),
                      "x", "y", "f", Kernel2, wx, R(1), R(0), R(0), MaxPix, 2))

SomeParts ==
    {PartA, PartB,
     Particle(R(0), R(0), Half, R(1), R(2), R(1)),
     Particle(R(3), R(2), Half, R(1), R(1), R(2)),
     Particle(R(1), R(1), R(-1), R(1), R(1), R(1)),
     Particle(R(1), Half, R(1), R(0), R(1), R(1))}

RowsUpTo(n) == UNION {[1..k -> SomeParts] : k \in 0..n}

\* datasets of up to MaxParts particles
MultiCalls ==
    \E rows \in RowsUpTo(MaxParts), x0 \in {R(0), R(-1)} :
        IsCall(MkCall(MkData("x", "y", "f", rows), "x", "y", "f", Kernel2,
                      R(1), R(1), x0, R(0), 4, 3))

PartC == Particle(R(2), R(1), R(1), R(1), R(1), R(1))

\* the position columns under other labels: the dataset holds the horizontal
\* positions under ls[1] and the vertical ones under ls[2], the call passes
\* x = ls[3] and y = ls[4]; "q" labels no column
LabelCalls ==
    \E rows \in {<<PartA>>, <<PartA, PartB>>, <<PartB>>, <<PartC>>},
       ls \in {<<"x", "y", "x", "y">>, <<"rx", "ry", "rx", "ry">>,
               <<"y", "x", "y", "x">>, <<"x", "ry", "x", "ry">>,
               <<"x", "y", "q", "y">>} :
        IsCall(MkCall(MkData(ls[1], ls[2], "f", rows), ls[3], ls[4], "f", Kernel2,
                      R(1), R(1), R(0), R(0), 4, 2))

Specials == {NaN, PInf, NInf}

\* a valid particle followed by one with non-finite attributes
NonFiniteCalls ==
    \E px \in Specials \cup {R(1)}, py \in {NaN, R(1)},
       h \in Specials \cup {R(1), R(-1)}, m \in Specials \cup {R(1)},
       rho \in Specials \cup {R(1)}, f \in Specials \cup {R(1)} :
        IsCall(MkCall(MkData("x", "y", "f", <<PartA, Particle(px, py, h, m, rho, f)>>),
                      "x", "y", "f", Kernel2, R(1), R(1), R(0), R(0), 3, 2))

\* datasets of MaxParts + 1 particles whose supports overlap, in every order
OrderCalls ==
    \E rows \in [1..(MaxParts + 1) -> {PartA, PartB, PartC}] :
        IsCall(MkCall(MkData("x", "y", "f", rows), "x", "y", "f", Kernel2,
                      R(1), R(1), R(0), R(0), 4, 3))

Init ==
    /\ \/ ArgCalls
       \/ SingleCalls
       \/ MultiCalls
       \/ LabelCalls
       \/ NonFiniteCalls
       \/ OrderCalls
    /\ NoFrame
    /\ pc = "check"
    /\ err = NoError
    /\ image = Unset /\ parts = Unset /\ part = Unset /\ dx2i = Unset
    /\ row = 0
    /\ jpix = 0
    /\ filled = {} /\ reads = {} /\ writes = {}

Spec == Init /\ [][Next]_vars

(***************************************************************************)
(* The operations on one SarracenDataFrame.                                *)
(***************************************************************************)
\* the operation named name, given a, left the object r.self and raised r.raised
Applied(name, a, r) ==
    /\ Becomes(r.self)
    /\ raised' = r.raised
    /\ op' = name /\ arg' = a
    /\ called' = NoCall
    /\ budget' = budget - 1
    /\ UNCHANGED <<built, call2d>>

\* the object exists and operations remain to be applied
Ready == built /\ budget > 0

\* lines 49-127: SarracenDataFrame(data, params)
Construct ==
    /\ ~built /\ op = "new"
    /\ LET r == Constructed(columns, values, params)
       IN  /\ Becomes(r.self)
           /\ raised' = r.raised
           /\ built' = (r.raised = NoError)
    /\ op' = "__init__" /\ arg' = params
    /\ UNCHANGED <<called, budget, zset, call2d>>

\* lines 617-620: self.xcol = new_col
Set_xcol(new_col) ==
    /\ Ready
    /\ Applied("xcol", new_col, Returns([Self EXCEPT !.xcol = Guarded(columns, xcol, new_col)]))
    /\ UNCHANGED zset

\* lines 632-635: self.ycol = new_col
Set_ycol(new_col) ==
    /\ Ready
    /\ Applied("ycol", new_col, Returns([Self EXCEPT !.ycol = Guarded(columns, ycol, new_col)]))
    /\ UNCHANGED zset

\* lines 647-650: self.zcol = new_col
Set_zcol(new_col) ==
    /\ Ready
    /\ Applied("zcol", new_col, Returns([Self EXCEPT !.zcol = Guarded(columns, zcol, new_col)]))
    /\ zset' = (zset \/ (new_col # None /\ new_col \in Labels(columns)))

\* lines 662-665: self.hcol = new_col
Set_hcol(new_col) ==
    /\ Ready
    /\ Applied("hcol", new_col, Returns([Self EXCEPT !.hcol = Guarded(columns, hcol, new_col)]))
    /\ UNCHANGED zset

\* lines 677-680: self.mcol = new_col
Set_mcol(new_col) ==
    /\ Ready
    /\ Applied("mcol", new_col, Returns([Self EXCEPT !.mcol = Guarded(columns, mcol, new_col)]))
    /\ UNCHANGED zset

\* lines 692-695: self.rhocol = new_col
Set_rhocol(new_col) ==
    /\ Ready
    /\ Applied("rhocol", new_col,
               Returns([Self EXCEPT !.rhocol = Guarded(columns, rhocol, new_col)]))
    /\ UNCHANGED zset

\* lines 708-711: self.vxcol = new_col
Set_vxcol(new_col) ==
    /\ Ready
    /\ Applied("vxcol", new_col,
               Returns([Self EXCEPT !.vxcol = Guarded(columns, vxcol, new_col)]))
    /\ UNCHANGED zset

\* lines 724-727: self.vycol = new_col
Set_vycol(new_col) ==
    /\ Ready
    /\ Applied("vycol", new_col,
               Returns([Self EXCEPT !.vycol = Guarded(columns, vycol, new_col)]))
    /\ UNCHANGED zset

\* lines 740-743: self.vzcol = new_col
Set_vzcol(new_col) ==
    /\ Ready
    /\ Applied("vzcol", new_col,
               Returns([Self EXCEPT !.vzcol = Guarded(columns, vzcol, new_col)]))
    /\ UNCHANGED zset

\* lines 765-768: self.kernel = new_kernel
Set_kernel(new_kernel) ==
    /\ Ready
    /\ Applied("kernel", new_kernel,
               Returns([Self EXCEPT !.kernel = GuardedKernel(self_kernel, new_kernel)]))
    /\ UNCHANGED zset

\* lines 589-596: self.params = new_params
Set_params(new_params) ==
    /\ Ready
    /\ Applied("params", new_params, SetParamsOf(Self, new_params))
    /\ UNCHANGED zset

\* lines 200-216
CreateMassColumn ==
    /\ Ready
    /\ Applied("create_mass_column", PyNone, CreateMassColumnOf(Self))
    /\ UNCHANGED zset

\* lines 218-259
CalcDensity ==
    /\ Ready
    /\ Applied("calc_density", PyNone, CalcDensityOf(Self))
    /\ UNCHANGED zset

\* lines 261-298
CalcOneFluidQuantities ==
    /\ Ready
    /\ Applied("calc_one_fluid_quantities", PyNone, CalcOneFluidQuantitiesOf(Self))
    /\ UNCHANGED zset

\* lines 471-575: self.sph_interpolate(target, xlim=xlim, ylim=ylim)
SphInterpolate(xlim, ylim) ==
    /\ Ready
    /\ LET r == SphInterpolateFor(GetDim(zcol), xlim, ylim)
       IN  raised' = r.raised /\ called' = r.called
    /\ op' = "sph_interpolate" /\ arg' = <<xlim, ylim>>
    /\ budget' = budget - 1
    /\ UNCHANGED <<attributes, built, zset, call2d>>

\* the values assigned to the label properties: None, a label that may be a
\* column and one that never is
LabelArgs == {None, "h", "nolabel"}

KernelArgs == {PyKernel("QuarticSplineKernel"), PyNone, PyStr("cubic")}

\* the items of a dict of parameters: mass and hfact when asked for, and the
\* dust counts when they are not negative
Items(mass, hfact, ndustsmall, ndustlarge) ==
    LET keys == (IF mass THEN {"mass"} ELSE {}) \cup (IF hfact THEN {"hfact"} ELSE {})
                \cup (IF ndustsmall >= 0 THEN {"ndustsmall"} ELSE {})
                \cup (IF ndustlarge >= 0 THEN {"ndustlarge"} ELSE {})
    IN  [key \in keys |->
            IF key = "mass" THEN R(3)
            ELSE IF key = "hfact" THEN RNorm(6, 5)
            ELSE IF key = "ndustsmall" THEN R(ndustsmall)
            ELSE R(ndustlarge)]

ParamsArgs ==
    {PyNone, PyList, PyDict(Items(FALSE, FALSE, -1, -1)), PyDict(Items(TRUE, TRUE, -1, -1))}

LimArgs == {PyNone, PyTuple(PyFloat(R(0)), PyFloat(R(1)))}

FrameNext ==
    \/ Construct
    \/ \E new_col \in LabelArgs : Set_xcol(new_col)
    \/ \E new_col \in LabelArgs : Set_ycol(new_col)
    \/ \E new_col \in LabelArgs : Set_zcol(new_col)
    \/ \E new_col \in LabelArgs : Set_hcol(new_col)
    \/ \E new_col \in LabelArgs : Set_mcol(new_col)
    \/ \E new_col \in LabelArgs : Set_rhocol(new_col)
    \/ \E new_col \in LabelArgs : Set_vxcol(new_col)
    \/ \E new_col \in LabelArgs : Set_vycol(new_col)
    \/ \E new_col \in LabelArgs : Set_vzcol(new_col)
    \/ \E new_kernel \in KernelArgs : Set_kernel(new_kernel)
    \/ \E new_params \in ParamsArgs : Set_params(new_params)
    \/ CreateMassColumn
    \/ CalcDensity
    \/ CalcOneFluidQuantities
    \/ \E xlim \in LimArgs, ylim \in LimArgs : SphInterpolate(xlim, ylim)

(***************************************************************************)
(* The datasets explored.                                                  *)
(***************************************************************************)
\* number of rows of the datasets
MaxRows == 2

\* largest number of columns of the datasets built from any labels
MaxCols == 3

\* largest number of operations applied to a constructed dataset
MaxOps == 2

\* the value in row k of the column labelled label: the smoothing lengths start
\* at 0, the other columns hold positive numbers
ValueAt(label, k) ==
    IF label = "h" THEN RNorm(k - 1, 2)
    ELSE IF label \in {"m", "mass"} THEN R(k)
    ELSE IF label \in {"rho", "density"} THEN R(k + 1)
    ELSE IF label = "dustfrac" THEN RNorm(1, 4 * k)
    ELSE IF label = "dustfrac2" THEN RNorm(1, 2 * k)
    ELSE R(k)

\* the values of a dataset with the given column labels
ValuesOf(cols) == [label \in Labels(cols) |-> [k \in 1..MaxRows |-> ValueAt(label, k)]]

\* no call of interpolate2D is under study
NoCall2D ==
    /\ data = <<>> /\ x = "x" /\ y = "y" /\ target = "f" /\ kernel = Kernel2
    /\ pixwidthx = R(1) /\ pixwidthy = R(1) /\ xmin = R(0) /\ ymin = R(0)
    /\ pixcountx = 1 /\ pixcounty = 1
    /\ pc = "idle" /\ err = NoError
    /\ image = Unset /\ parts = Unset /\ part = Unset /\ dx2i = Unset
    /\ row = 0 /\ jpix = 0
    /\ filled = {} /\ reads = {} /\ writes = {}

\* the arguments of the constructor are the frame of columns cols and the
\* params argument params_arg; n operations follow the construction
IsNew(cols, params_arg, n) ==
    /\ columns = cols /\ values = ValuesOf(cols) /\ params = params_arg
    /\ xcol = None /\ ycol = None /\ zcol = None
    /\ hcol = None /\ mcol = None /\ rhocol = None
    /\ vxcol = None /\ vycol = None /\ vzcol = None
    /\ dustfracscol = <<>> /\ self_kernel = PyNone
    /\ built = FALSE /\ op = "new" /\ arg = PyNone
    /\ raised = NoError /\ called = NoCall /\ budget = n /\ zset = FALSE

\* the labels the constructor looks for, and two it does not
SomeLabels ==
    {"x", "rx", "y", "ry", "z", "rz", "h", "m", "mass", "rho", "density",
     "vx", "vy", "vz", "dustfrac", "a", "b"}

\* datasets of up to MaxCols columns under any of these labels, in any order,
\* to be constructed
AnyColumns ==
    \E n \in 0..MaxCols : \E cols \in [1..n -> SomeLabels] :
        /\ \A a, b \in 1..n : cols[a] = cols[b] => a = b
        /\ IsNew(cols, PyNone, 0)

SomeColumns ==
    {<<"x", "y", "h">>,
     <<"x", "y", "z", "h", "mass">>,
     <<"x", "y", "h", "m", "rho">>,
     <<"x", "y", "h", "density", "dustfrac">>,
     <<"x", "y", "h", "m", "dustfrac", "dustfrac2">>,
     <<"rx", "ry", "rz", "h", "m", "dustfrac">>,
     <<"a", "b">>,
     <<"a">>}

\* the values of params['ndustsmall'] and params['ndustlarge'], -1 for a key
\* that params does not have
NdustArgs ==
    {<<0, 0>>, <<1, 0>>, <<2, 0>>, <<3, 0>>, <<0, 1>>, <<1, 1>>, <<-1, 0>>, <<1, -1>>}

\* datasets of particles with every kind of params, to be constructed and
\* operated on
SomeFrames ==
    \E cols \in SomeColumns :
        \/ \E params_arg \in {PyNone, PyList} : IsNew(cols, params_arg, MaxOps)
        \/ \E mass \in BOOLEAN, hfact \in BOOLEAN :
              IsNew(cols, PyDict(Items(mass, hfact, -1, -1)), MaxOps)
        \/ \E ndust \in NdustArgs :
              IsNew(cols, PyDict(Items(TRUE, TRUE, ndust[1], ndust[2])), MaxOps)

FrameInit ==
    /\ AnyColumns \/ SomeFrames
    /\ NoCall2D

FrameSpec == FrameInit /\ [][FrameNext]_vars

\* the call has ended
Ended == pc \in {"done", "raised"}

\* what the caller gets
Outcome == [err |-> err, image |-> IF pc = "done" THEN image ELSE Unset]

\* the statements of the body compose to the function of the arguments
StepsAgree == Ended => Outcome = Interpolate2D(Call)


(***************************************************************************)
(* Properties.                                                             *)
(***************************************************************************)
\* the rows of the dataset
Rows == 1..NRows(data)

\* the pixels of the grid
PixRows == 0..(pixcounty - 1)

PixCols == 0..(pixcountx - 1)

\* one of the conditions of lines 35-45 holds
BadArgs ==
    \/ RNonPos(pixwidthx)
    \/ RNonPos(pixwidthy)
    \/ pixcountx <= 0
    \/ pixcounty <= 0
    \/ kernel.ndims # 2

\* C1: when a pixel width or a pixel count is <= 0 or the kernel is not
\* two-dimensional, the call raises ValueError and does nothing else: the output
\* array is never allocated, no working frame is built and no particle is
\* accumulated.
C1_RaisesBeforeAllocation ==
    BadArgs =>
        /\ pc = "check" \/ (pc = "raised" /\ err = "ValueError")
        /\ image = Unset /\ parts = Unset
        /\ row = 0 /\ writes = {}

\* the scenario of the specification: pixcountx = 0 with everything else valid
C1_Witness ==
    /\ pc = "raised" /\ err = "ValueError" /\ image = Unset
    /\ pixcountx = 0 /\ pixcounty > 0 /\ kernel.ndims = 2
    /\ RPos(pixwidthx) /\ RPos(pixwidthy)

\* every value of the dataset is a finite number
AllFinite == \A l \in DOMAIN data : \A k \in Rows : IsFinite(data[l][k])

\* the arguments pass the checks, the columns exist and every particle is one of
\* the data model: finite attributes, h > 0, rho > 0
ValidInput ==
    /\ ~BadArgs
    /\ {x, y, "h", "m", "rho", target} \subseteq DOMAIN data
    /\ AllFinite
    /\ \A k \in Rows : RPos(data["h"][k]) /\ RPos(data["rho"][k])

\* weight * target * w(q) of particle k at the centre of pixel (j, i), with
\* q^2 = ((cx - x)^2 + (cy - y)^2) / h^2 and weight = m / (rho * h^2)
RefTerm(k, j, i) ==
    LET cx == RAdd(xmin, RMul(RNorm(2 * i + 1, 2), pixwidthx))
        cy == RAdd(ymin, RMul(RNorm(2 * j + 1, 2), pixwidthy))
        h  == data["h"][k]
        wt == RDiv(data["m"][k], RMul(data["rho"][k], RMul(h, h)))
        d2 == RAdd(RSq(RSub(cx, data[x][k])), RSq(RSub(cy, data[y][k])))
    IN  IF RPos(wt)
        THEN RMul(RMul(wt, data[target][k]), KernelW(kernel, RDiv(d2, RMul(h, h))))
        ELSE R(0)

RECURSIVE RefSum(_, _, _)
\* the sum of RefTerm over the particles 1..k
RefSum(k, j, i) == IF k = 0 THEN R(0) ELSE RAdd(RefSum(k - 1, j, i), RefTerm(k, j, i))

\* the grid the claim describes
ImageIsRefSum ==
    /\ DOMAIN image = PixRows
    /\ \A j \in PixRows :
        /\ DOMAIN image[j] = PixCols
        /\ \A i \in PixCols : image[j][i] = RefSum(NRows(data), j, i)

\* C2: for valid inputs the call returns the pixcounty by pixcountx grid whose
\* cell [j][i] is the sum over the particles with weight > 0 of
\* weight * target * w(q) at the cell's centre.
C2_GridIsKernelSum == (Ended /\ ValidInput) => (pc = "done" /\ ImageIsRefSum)

\* C2 for position columns labelled 'x' and 'y'
C2_GridIsKernelSumXY == (x = "x" /\ y = "y") => C2_GridIsKernelSum

\* a returned grid with a particle whose upper bound is a rounding tie
C2_WitnessXY ==
    /\ pc = "done" /\ ValidInput /\ x = "x" /\ y = "y"
    /\ \E k \in Rows :
        /\ RPos(data["m"][k])
        /\ LET b == RDiv(RSub(RAdd(data[x][k], RMul(R(kernel.radkernel), data["h"][k])),
                              xmin), pixwidthx)
           IN  b[2] = 2 /\ RLess(b, R(pixcountx))
    /\ \E j \in PixRows : \E i \in PixCols : image[j][i] # R(0)

\* C3: every write to the grid made for the current particle is at a row in
\* 0..pixcounty-1 and a column in 0..pixcountx-1, every dx2i entry filled is in
\* 0..pixcountx-1, and every dx2i entry read was filled for that particle.
C3_AccessesInBounds ==
    /\ \A w \in writes : w[1] \in PixRows /\ w[2] \in PixCols
    /\ filled \subseteq PixCols
    /\ reads \subseteq filled

\* rint((pos + sgn * radkernel * h - origin) / width) before clipping
Unclipped(pos, h, sgn, origin, width) ==
    Rint(RDiv(RSub(RAdd(pos, RMul(R(sgn * kernel.radkernel), h)), origin), width))

\* a particle whose support leaves the grid on both sides of both axes has been
\* accumulated
C3_Witness ==
    /\ pc = "loop" /\ row >= 1 /\ writes # {} /\ reads # {}
    /\ IsFinite(part.x) /\ IsFinite(part.y)
    /\ RLess(Unclipped(part.x, part.h, -1, xmin, pixwidthx), R(0))
    /\ RLess(R(pixcountx), Unclipped(part.x, part.h, 1, xmin, pixwidthx))
    /\ RLess(Unclipped(part.y, part.h, -1, ymin, pixwidthy), R(0))
    /\ RLess(R(pixcounty), Unclipped(part.y, part.h, 1, ymin, pixwidthy))

\* the index bound of the claim: round((centre -+ radkernel*h - origin) /
\* cell_width) clamped to [0, pixel_count], defined for centres that are not NaN
AxisBound(centre, h, sgn, origin, width, count) ==
    LET u == Unclipped(centre, h, sgn, origin, width)
    IN  IF u[2] = 0 THEN (IF u[1] > 0 THEN count ELSE 0)
        ELSE IF u[1] < 0 THEN 0
        ELSE IF u[1] > count THEN count
        ELSE u[1]

\* the tuple just accumulated is complete
PartDone == pc = "loop" /\ row >= 1

\* C4 as stated: the cells a particle is accumulated into are the cross product
\* of the inclusive ranges i_min..i_max and j_min..j_max around its position.
C4_InclusiveRanges ==
    PartDone =>
        writes = {<<j, i>> :
                    j \in AxisBound(part.y, part.h, -1, ymin, pixwidthy, pixcounty)
                          ..AxisBound(part.y, part.h, 1, ymin, pixwidthy, pixcounty),
                    i \in AxisBound(part.x, part.h, -1, xmin, pixwidthx, pixcountx)
                          ..AxisBound(part.x, part.h, 1, xmin, pixwidthx, pixcountx)}

\* C4 amended: the cells a particle is accumulated into are the cross product of
\* the half-open ranges i_min <= i < i_max and j_min <= j < j_max, the bounds
\* being computed (ties rounded to even) from the values the working frame holds
\* under the labels passed as x and y.
C4_HalfOpenRanges ==
    PartDone =>
        writes = {<<j, i>> :
                    j \in AxisBound(part[y], part.h, -1, ymin, pixwidthy, pixcounty)
                          ..(AxisBound(part[y], part.h, 1, ymin, pixwidthy, pixcounty) - 1),
                    i \in AxisBound(part[x], part.h, -1, xmin, pixwidthx, pixcountx)
                          ..(AxisBound(part[x], part.h, 1, xmin, pixwidthx, pixcountx) - 1)}

\* a particle has been accumulated into some cells, its upper column bound
\* inside the grid
C4_Witness ==
    /\ PartDone /\ writes # {}
    /\ RLess(part.ipixmax, R(pixcountx))
    /\ RLess(R(0), part.ipixmin)


\* column col without its k-th entry
DropAt(col, k) == [n \in 1..(Len(col) - 1) |-> IF n < k THEN col[n] ELSE col[n + 1]]

\* the call on the dataset without particle k
Without(c, k) == [c EXCEPT !.data = [l \in DOMAIN c.data |-> DropAt(c.data[l], k)]]

\* the call on the dataset that holds particle k only
Only(c, k) == [c EXCEPT !.data = [l \in DOMAIN c.data |-> <<c.data[l][k]>>]]

\* C5 as stated: a particle with h <= 0, whatever its other attributes, changes
\* nothing: the call ends as the call without the particle ends, with the same
\* grid or the same exception.
C5_NonPositiveHDropped ==
    Ended =>
        \A k \in Rows :
            RNonPos(data["h"][k]) => Outcome = Interpolate2D(Without(Call, k))

\* C5 for particles whose position is not NaN
C5_NonPositiveHDroppedNumeric ==
    Ended =>
        \A k \in Rows :
            (/\ RNonPos(data["h"][k])
             /\ {x, y} \subseteq DOMAIN data => ~IsNaN(data[x][k]) /\ ~IsNaN(data[y][k]))
            => Outcome = Interpolate2D(Without(Call, k))

\* a particle with h <= 0 and positive weight went through the loop
C5_WitnessNumeric ==
    /\ pc = "done" /\ NRows(data) >= 1 /\ row = NRows(data)
    /\ \E k \in Rows : RNonPos(data["h"][k]) /\ IsFinite(data["h"][k])

\* the weight of line 54 for particle k
WeightOf(k) == Weight(data["m"][k], data["rho"][k], data["h"][k])

\* particle k has an attribute that is NaN or infinite
NonFinite(k) == \E l \in DOMAIN data : ~IsFinite(data[l][k])

\* C6 as stated: a particle with non-positive weight or with a non-finite
\* attribute changes nothing: the call ends as the call without the particle ends.
C6_AnomaliesDropped ==
    Ended =>
        \A k \in Rows :
            (RNonPos(WeightOf(k)) \/ NonFinite(k))
            => Outcome = Interpolate2D(Without(Call, k))

\* the part of C6 the filter of line 58 provides: a particle whose weight is not
\* greater than zero (NaN included) changes nothing
C6_NoWeightDropped ==
    Ended =>
        \A k \in Rows :
            ~RPos(WeightOf(k)) => Outcome = Interpolate2D(Without(Call, k))

C6_WitnessNoWeight ==
    /\ pc = "done" /\ NRows(data) = 2 /\ NRows(parts) = 1
    /\ \E k \in Rows : RNonPos(WeightOf(k)) /\ ~NonFinite(k)

\* the call with the position columns renamed to 'x' and 'y'
Renamed(c) ==
    [c EXCEPT !.x = "x", !.y = "y",
              !.data = [l \in (DOMAIN c.data \ {c.x, c.y}) \cup {"x", "y"} |->
                            IF l = "x" THEN c.data[c.x]
                            ELSE IF l = "y" THEN c.data[c.y]
                            ELSE c.data[l]]]

\* C7 as stated: whatever two columns of the dataset x and y name, the call ends
\* as the call on the dataset with those columns renamed to 'x' and 'y' ends.
C7_LabelsRespected ==
    (Ended /\ {x, y} \subseteq DOMAIN data /\ x # y)
    => Outcome = Interpolate2D(Renamed(Call))

\* the translations tried
Shifts == {<<R(1), R(0)>>, <<R(0), Half>>, <<RNorm(-3, 2), R(2)>>}

ShiftCol(col, d) == [k \in 1..Len(col) |-> RAdd(col[k], d)]

\* the call with every position and the grid origin moved by v
Translate(c, v) ==
    [c EXCEPT !.xmin = RAdd(c.xmin, v[1]), !.ymin = RAdd(c.ymin, v[2]),
              !.data = [l \in DOMAIN c.data |->
                            IF l = c.x THEN ShiftCol(c.data[l], v[1])
                            ELSE IF l = c.y THEN ShiftCol(c.data[l], v[2])
                            ELSE c.data[l]]]

\* C8 as stated: moving every particle and the grid origin by the same vector
\* leaves the result unchanged.
C8_TranslationInvariant ==
    Ended => \A v \in Shifts : Outcome = Interpolate2D(Translate(Call, v))

\* C8 for position columns labelled 'x' and 'y'
C8_TranslationInvariantXY == (x = "x" /\ y = "y") => C8_TranslationInvariant

\* the cells the call accumulates particle k into, alone in the dataset
Footprint(k) ==
    LET c  == Only(Call, k)
        ps == AddBounds(c, FilterParts(CloneColumns(c)))
    IN  IF NRows(ps) = 0 THEN {}
        ELSE {<<j, i>> : j \in JRange(Tuple(ps, 1)), i \in IRange(Tuple(ps, 1))}

\* the grid of the call on particle k alone
Single(k) == Interpolate2D(Only(Call, k)).image

\* C9: when the footprints of the two particles of a dataset share no cell, each
\* cell of the grid returned equals the cell of the single-particle grid of the
\* particle whose footprint holds it, and 0 when neither does.
C9_DisjointFootprints ==
    (pc = "done" /\ NRows(data) = 2 /\ Footprint(1) \cap Footprint(2) = {})
    => \A j \in PixRows : \A i \in PixCols :
         image[j][i] = IF <<j, i>> \in Footprint(1) THEN Single(1)[j][i]
                       ELSE IF <<j, i>> \in Footprint(2) THEN Single(2)[j][i]
                       ELSE R(0)

\* both particles have left something in the grid, in disjoint footprints
C9_Witness ==
    /\ pc = "done" /\ NRows(data) = 2
    /\ Footprint(1) \cap Footprint(2) = {}
    /\ \E c \in Footprint(1) : image[c[1]][c[2]] # R(0)
    /\ \E c \in Footprint(2) : image[c[1]][c[2]] # R(0)
    /\ \E j \in PixRows : \E i \in PixCols : <<j, i>> \notin Footprint(1) \cup Footprint(2)

\* the dataset is one particle of finite attributes and positive density at the
\* centre of the grid's extent
CentredParticle ==
    /\ ~BadArgs
    /\ {x, y, "h", "m", "rho", target} \subseteq DOMAIN data
    /\ NRows(data) = 1
    /\ AllFinite
    /\ RPos(data["rho"][1])
    /\ data[x][1] = RAdd(xmin, RMul(RNorm(pixcountx, 2), pixwidthx))
    /\ data[y][1] = RAdd(ymin, RMul(RNorm(pixcounty, 2), pixwidthy))

\* the squared distance from the centre of pixel (j, i) to particle 1
Dist2(j, i) ==
    RAdd(RSq(RSub(PixCentre(xmin, pixwidthx, i), data[x][1])),
         RSq(RSub(PixCentre(ymin, pixwidthy, j), data[y][1])))

\* C10 as stated: the grid of one particle at the centre of the grid's extent is
\* symmetric under reflection of the columns and of the rows, and is zero in
\* every cell whose centre is farther than radkernel * h from the particle.
C10_CentredSymmetric ==
    (pc = "done" /\ CentredParticle)
    => \A j \in PixRows : \A i \in PixCols :
         /\ image[j][i] = image[j][pixcountx - 1 - i]
         /\ image[j][i] = image[pixcounty - 1 - j][i]
         /\ RLess(RSq(RMul(R(kernel.radkernel), data["h"][1])), Dist2(j, i))
            => image[j][i] = R(0)

\* C10 for position columns labelled 'x' and 'y'
C10_CentredSymmetricXY == (x = "x" /\ y = "y") => C10_CentredSymmetric

C10_WitnessXY ==
    /\ pc = "done" /\ CentredParticle /\ x = "x" /\ y = "y"
    /\ \E j \in PixRows : \E i \in PixCols : image[j][i] # R(0)

\* the orders in which n particles can be processed
Perms(n) == {p \in [1..n -> 1..n] : \A a, b \in 1..n : p[a] = p[b] => a = b}

\* the call on the dataset with its rows in the order p
Permuted(c, p) ==
    [c EXCEPT !.data = [l \in DOMAIN c.data |->
                            [k \in 1..Len(c.data[l]) |-> c.data[l][p[k]]]]]

RECURSIVE SumOfSingles(_, _, _)
\* cell (j, i) summed over the grids of the particles 1..k, each taken alone
SumOfSingles(k, j, i) ==
    IF k = 0 THEN R(0) ELSE RAdd(SumOfSingles(k - 1, j, i), Single(k)[j][i])

\* C11: the grid returned does not depend on the order of the particles: the
\* call on the same rows in any other order returns the same grid, and each
\* cell is the sum of the cells of the grids of the particles taken alone.
C11_OrderIndependent ==
    pc = "done" =>
        /\ \A p \in Perms(NRows(data)) : Interpolate2D(Permuted(Call, p)) = Outcome
        /\ \A j \in PixRows : \A i \in PixCols :
             image[j][i] = SumOfSingles(NRows(data), j, i)

\* three or more particles, two different ones both adding to one cell
C11_Witness ==
    /\ pc = "done" /\ NRows(data) >= 3
    /\ \E a, b \in Rows :
         /\ Tuple(data, a) # Tuple(data, b)
         /\ \E j \in PixRows : \E i \in PixCols :
              /\ Single(a)[j][i] # R(0)
              /\ Single(b)[j][i] # R(0)
              /\ Single(a)[j][i] # Single(b)[j][i]

\* C12: no step of the call changes the dataset passed to it: its column labels
\* and its values stay what they were, whether the call returns or raises.
C12_DataUnchanged == [][data' = data]_vars

\* the call returned after its working frame lost a row to the filter and
\* gained the index-bound columns, none of which the dataset has
C12_Witness ==
    /\ pc = "done"
    /\ NRows(parts) < NRows(data)
    /\ {"weight", "term", "ipixmin", "jpixmax"} \subseteq DOMAIN parts
    /\ {"weight", "term", "ipixmin", "jpixmax"} \cap DOMAIN data = {}

(***************************************************************************)
(* Properties of SarracenDataFrame.                                        *)
(***************************************************************************)
\* the step applies the operation named name to the constructed object
Did(name) == built /\ op' = name /\ budget' = budget - 1

\* the number of positional dimensions of the data: 3 with a z column, 2 with
\* an x and a y column and no z column, fewer without an x or a y column
Dimensionality ==
    IF zcol # None THEN 3
    ELSE IF xcol # None /\ ycol # None THEN 2
    ELSE IF xcol # None \/ ycol # None THEN 1
    ELSE 0

\* xlim or ylim as the 2D interpolation receives it
Defaulted(lim) == IF lim = PyNone THEN PyTuple(PyNone, PyNone) ELSE lim

\* sph_interpolate called the 2D interpolation, an unspecified limit replaced
Called2D ==
    /\ raised = NoError
    /\ called.fn = "interpolate_2d"
    /\ called.xlim = Defaulted(arg[1]) /\ called.ylim = Defaulted(arg[2])

Called3D == raised = NoError /\ called.fn = "interpolate_3d_grid"

\* C13 as stated: sph_interpolate calls the 2D interpolation (an unspecified
\* xlim or ylim replaced by (None, None)) on data of 2 positional dimensions, the
\* 3D grid interpolation on data of 3, and raises ValueError, calling neither, on
\* data of any other dimensionality.
C13_DispatchOnDimensionality ==
    (built /\ op = "sph_interpolate") =>
        IF Dimensionality = 2 THEN Called2D
        ELSE IF Dimensionality = 3 THEN Called3D
        ELSE raised = "ValueError" /\ called = NoCall

\* the part of C13 the code provides: the 3D grid interpolation when zcol is
\* set, the 2D interpolation in every other case
C13_DispatchOnZcol ==
    (built /\ op = "sph_interpolate") => IF zcol = None THEN Called2D ELSE Called3D

\* the 2D interpolation was called with xlim unspecified and ylim given
C13_WitnessZcol ==
    /\ built /\ op = "sph_interpolate" /\ zcol = None
    /\ arg[1] = PyNone /\ arg[2] # PyNone
    /\ called.fn = "interpolate_2d" /\ called.xlim = PyTuple(PyNone, PyNone)

\* the label properties, by name
RoleOf(name) ==
    CASE name = "xcol" -> xcol [] name = "ycol" -> ycol [] name = "zcol" -> zcol
      [] name = "hcol" -> hcol [] name = "mcol" -> mcol [] name = "rhocol" -> rhocol
      [] name = "vxcol" -> vxcol [] name = "vycol" -> vycol [] name = "vzcol" -> vzcol

RoleNames == {"xcol", "ycol", "zcol", "hcol", "mcol", "rhocol", "vxcol", "vycol", "vzcol"}

\* every role label is None or a column, and the kernel is a BaseKernel
RolesValid ==
    /\ \A name \in RoleNames : RoleOf(name) = None \/ RoleOf(name) \in Labels(columns)
    /\ IsBaseKernel(self_kernel)

\* an assignment to a label property raises nothing and takes effect exactly
\* when the value is None or a column of the dataset
LabelAssignments ==
    \A name \in RoleNames :
        Did(name) =>
            /\ raised' = NoError
            /\ RoleOf(name)' = IF arg' = None \/ arg' \in Labels(columns)
                               THEN arg' ELSE RoleOf(name)

\* an assignment to kernel raises nothing and takes effect exactly when the
\* value is a BaseKernel
KernelAssignments ==
    Did("kernel") =>
        /\ raised' = NoError
        /\ self_kernel' = IF arg'.type \in KernelClasses THEN arg' ELSE self_kernel

\* a role label or the kernel changes only to a valid value
ChangesAreValid ==
    /\ \A name \in RoleNames :
        RoleOf(name)' # RoleOf(name)
        => RoleOf(name)' = None \/ RoleOf(name)' \in Labels(columns')
    /\ self_kernel' # self_kernel => IsBaseKernel(self_kernel')

\* C14: an assignment of an invalid value to a guarded property leaves the old
\* value and raises nothing; a role label changes only to None or to a label that
\* is a column at that moment, the kernel only to a BaseKernel; so on a
\* constructed object every role label is None or a column (no operation modelled
\* removes a column) and the kernel is a BaseKernel.
C14_GuardedAssignments ==
    /\ [][LabelAssignments /\ KernelAssignments /\ ChangesAreValid]_vars
    /\ [](built => RolesValid)

\* hcol kept its label after an assignment of a label that is no column
C14_Witness ==
    /\ built /\ op = "hcol" /\ arg = "nolabel"
    /\ hcol = "h" /\ raised = NoError

\* C15 as stated: calc_one_fluid_quantities raises KeyError when no column label
\* starts with 'dustfrac'.
C15_NoDustRaisesKeyError ==
    (built /\ op = "calc_one_fluid_quantities" /\ Labels(columns) \cap DustLabels = {})
    => raised = "KeyError"

\* key is a key of params (it is not when params is None)
InParams(key) == params # PyNone /\ key \in DOMAIN params.value

\* the case in which the claim has calc_density raise KeyError
DensityInputMissing ==
    \/ hcol \notin Labels(columns)
    \/ ~InParams("hfact")
    \/ (mcol \notin Labels(columns) /\ ~InParams("mass"))

\* mass * (hfact / h)^dim for row k, the mass from the mass column when there is
\* one and from params['mass'] when there is none
DensityAt(k) ==
    LET mass  == IF mcol \in Labels(columns) THEN values[mcol][k] ELSE params.value["mass"]
        ratio == RDiv(params.value["hfact"], values[hcol][k])
    IN  IF zcol = None THEN RMul(mass, RMul(ratio, ratio))
        ELSE RMul(mass, RMul(ratio, RMul(ratio, ratio)))

\* what the claim has calc_density do
DensityStep ==
    IF DensityInputMissing
    THEN /\ raised' = "KeyError"
         /\ columns' = columns /\ values' = values /\ rhocol' = rhocol
    ELSE /\ raised' = NoError
         /\ Labels(columns') = Labels(columns) \cup {"rho"}
         /\ \A k \in 1..MaxRows : values'["rho"][k] = DensityAt(k)
         /\ \A label \in Labels(columns) \ {"rho"} : values'[label] = values[label]
         /\ rhocol' = "rho"

\* C16 as stated: calc_density raises KeyError and changes nothing when the
\* smoothing-length column does not exist, 'hfact' is not in params, or there is
\* neither a mass column nor 'mass' in params; otherwise it sets column 'rho' to
\* mass * (hfact / h)^dim and rhocol to 'rho'.
C16_CalcDensity == [][Did("calc_density") => DensityStep]_vars

\* C16 for params that is a dict
C16_CalcDensityDictParams ==
    [][(Did("calc_density") /\ params # PyNone) => DensityStep]_vars

\* the density was computed from params['mass'], the dataset having a column
\* 'm' that mcol does not name
C16_WitnessDictParams ==
    /\ built /\ op = "calc_density" /\ raised = NoError
    /\ mcol = None /\ "m" \in Labels(columns) /\ rhocol = "rho"

\* canonical if it is a column, else alias if it is one, else default
Fallback(canonical, alias, default) ==
    IF canonical \in Labels(columns) THEN canonical
    ELSE IF alias \in Labels(columns) THEN alias
    ELSE default

\* the role columns the claim describes for the columns of the dataset; the
\* first or second column when there is one
RolesByFallback ==
    /\ xcol = Fallback("x", "rx", IF Len(columns) >= 1 THEN columns[1] ELSE None)
    /\ ycol = Fallback("y", "ry", IF Len(columns) >= 2 THEN columns[2] ELSE None)
    /\ zcol = Fallback("z", "rz", None)
    /\ hcol = Fallback("h", "h", None)
    /\ mcol = Fallback("m", "mass", None)
    /\ rhocol = Fallback("rho", "density", None)

\* a 'z' or 'rz' column was found on construction (no operation modelled adds
\* or removes such a column afterwards)
FoundZ == "z" \in Labels(columns) \/ "rz" \in Labels(columns)

\* the object has just been constructed
JustBuilt == built /\ op = "__init__"

\* C17 as stated: on construction the role columns follow the fallback order, and
\* get_dim returns 3 exactly when a 'z' or 'rz' column was found or zcol was
\* later set.
C17_FallbackAndDimFound ==
    built =>
        /\ op = "__init__" => RolesByFallback
        /\ GetDim(zcol) = 3 <=> (FoundZ \/ zset)

\* get_dim after an assignment to zcol: 2 after None, 3 after a column label,
\* unchanged after anything else; no other operation changes it
DimFollowsZcol ==
    /\ Did("zcol") =>
        GetDim(zcol') = IF arg' = None THEN 2
                        ELSE IF arg' \in Labels(columns) THEN 3
                        ELSE GetDim(zcol)
    /\ (built /\ op' # "zcol") => GetDim(zcol') = GetDim(zcol)

\* C17 amended: on construction the role columns follow the fallback order and
\* get_dim returns 3 exactly when a 'z' or 'rz' column was found; afterwards
\* get_dim changes only with an assignment to zcol that takes effect, to 3 for a
\* column label and to 2 for None.
C17_FallbackAndDimFollowsZcol ==
    /\ [](JustBuilt => (RolesByFallback /\ (GetDim(zcol) = 3 <=> FoundZ)))
    /\ [][DimFollowsZcol]_vars

\* a dataset whose columns were found under their aliases, zcol since set to None
C17_Witness ==
    /\ built /\ op = "zcol" /\ arg = None
    /\ xcol = "rx" /\ ycol = "ry" /\ "rz" \in Labels(columns)
    /\ zcol = None /\ GetDim(zcol) = 2

\* the columns, rhocol, mcol and params are what they were
DatasetKept ==
    /\ columns' = columns
    /\ rhocol' = rhocol /\ mcol' = mcol
    /\ params' = params

\* C18 as stated: when calc_one_fluid_quantities raises ValueError, when
\* create_mass_column raises KeyError and when the params setter raises
\* TypeError, the columns, rhocol, mcol and params are what they were before.
C18_RaisingKeepsDataset ==
    [][(\/ Did("calc_one_fluid_quantities") /\ raised' = "ValueError"
        \/ Did("create_mass_column") /\ raised' = "KeyError"
        \/ Did("params") /\ raised' = "TypeError")
       => DatasetKept]_vars

\* C18 for create_mass_column, the params setter, and calc_one_fluid_quantities
\* on a dataset whose density column exists
C18_RaisingKeepsDatasetWithDensity ==
    [][(\/ /\ Did("calc_one_fluid_quantities") /\ raised' = "ValueError"
           /\ rhocol \in Labels(columns)
        \/ Did("create_mass_column") /\ raised' = "KeyError"
        \/ Did("params") /\ raised' = "TypeError")
       => DatasetKept]_vars

\* calc_one_fluid_quantities raised ValueError on a dataset with a density column
C18_WitnessWithDensity ==
    /\ built /\ op = "calc_one_fluid_quantities" /\ raised = "ValueError"
    /\ rhocol \in Labels(columns) /\ "dustfrac" \in Labels(columns)

=============================================================================
